---- MODULE Spec2Model ----
(***************************************************************************)
(* Foodgram backend: recipes, short links, favorites, shopping cart,       *)
(* subscriptions and the shopping-list export, as a state machine over the *)
(* database tables.  One action per request handler.                       *)
(***************************************************************************)
EXTENDS Integers, Sequences, FiniteSets, Bags, TLC

(* ------------------------------ bounds -------------------------------- *)

\* Registered users are 1..NUsers.
NUsers == 2
\* Recipe primary keys handed out over the whole run are 1..MaxRecipes.
MaxRecipes == 2
\* Amounts a payload may carry are 1..MaxAmount.
MaxAmount == 2
\* Longest ingredient list of a payload.
MaxIngredients == 2
\* Random short-link tokens are drawn from 1..NTokens (distinct 8-char strings).
NTokens == 2
\* Concurrent get-link requests in flight.
NProcs == 2

MaxLimitLen == 2

Users == 1..NUsers
RecipeIds == 1..MaxRecipes
Amounts == 1..MaxAmount
Tokens == 1..NTokens
Procs == 1..NProcs

\* A nullable column holding no token / a response without a body.
NoToken == 0
NoBody == 0

RecipeNames == {"borsch", "salad"}

\* settings.py
INGREDIENT_MIN_AMOUNT == 1
INGREDIENT_MAX_AMOUNT == 32000

\* The column of a PositiveSmallIntegerField on PostgreSQL: smallint with a
\* check >= 0.
SmallIntMax == 32767
TagIds == {1, 2}

(* ------------------------- ingredient catalog ------------------------- *)

\* Rows of the Ingredient table (reference data; name is unique).  The
\* primary-key order differs from the name order.
IngredientTable ==
    { [id |-> 1, name |-> "flour", measurement_unit |-> "g"],
      [id |-> 2, name |-> "eggs",  measurement_unit |-> "pcs"] }

IngredientIds == { i.id : i \in IngredientTable }

Ingredient(i) == CHOOSE row \in IngredientTable : row.id = i

\* Ordinal position of a name under the database's string comparison.
NameOrd(n) ==
    CASE n = "eggs"  -> 1
      [] n = "flour" -> 2

(* ------------------------------- state -------------------------------- *)

VARIABLES
    recipes,            \* Recipe rows: [id, author, name, short_link_token]
    nextId,             \* next value of the Recipe primary-key sequence
    recipeTags,         \* Recipe.tags m2m rows: [recipe, tag]
    recipeIngredients,  \* RecipeIngredient rows: [recipe, ingredient, amount]
    favorites,          \* FavoriteRecipe rows: a bag of [user, recipe]
    cart,               \* ShoppingCart rows: a bag of [user, recipe]
    subscriptions,      \* Subscription rows: a bag of [user, author]
    shortLinks,         \* ShortLink rows: [recipe, token]
    pc,                 \* position of each in-flight get-link request
    last,               \* the response the latest step sent (op "none" when
                        \* the step completed no request)
    linkReturned,       \* history, per recipe: the token get-link returned
                        \* last, and whether it has been returned again
    cartEmptied         \* history: users whose cart is empty because its
                        \* last row was removed

tables == <<recipes, nextId, recipeTags, recipeIngredients, favorites, cart,
            subscriptions, shortLinks>>

vars == <<recipes, nextId, recipeTags, recipeIngredients, favorites, cart,
          subscriptions, shortLinks, pc, last, linkReturned,
          cartEmptied>>

\* The three edge tables hold rows with a surrogate key, so the same pair
\* can be stored more than once unless a constraint forbids it: each is a
\* bag of pairs, a pair's count being its number of rows.
Rows(table) == BagToSet(table)

\* objects.filter(...).exists()
Exists(table, row) == BagIn(row, table)

\* objects.create(...), constraints aside
Insert(table, row) == table (+) SetToBag({row})

\* The table after objects.filter(user=..., recipe=...).delete(), or the
\* like for a subscription: every row of the pair goes.
Without(table, pair) ==
    [row \in { x \in DOMAIN table : x # pair } |-> table[row]]

\* The table after the cascade of recipe r's deletion.
WithoutRecipe(table, r) ==
    [row \in { x \in DOMAIN table : x.recipe # r } |-> table[row]]

\* The table without the rows of user u.
WithoutUser(table, u) ==
    [row \in { x \in DOMAIN table : x.user # u } |-> table[row]]

Idle == [pc |-> "idle", recipe |-> 0]

NotReturned == [token |-> NoToken, again |-> FALSE]

\* The history after get-link has answered with token tok.
Returned(old, tok) == [token |-> tok, again |-> old.token # NoToken]

Response(op, user, arg, status, body) ==
    [op |-> op, user |-> user, arg |-> arg, status |-> status, body |-> body]

NoResponse == Response("none", 0, 0, 0, NoBody)

Init ==
    /\ recipes = {}
    /\ nextId = 1
    /\ recipeTags = {}
    /\ recipeIngredients = {}
    /\ favorites = EmptyBag
    /\ cart = EmptyBag
    /\ subscriptions = EmptyBag
    /\ shortLinks = {}
    /\ pc = [p \in Procs |-> Idle]
    /\ last = NoResponse
    /\ linkReturned = [r \in RecipeIds |-> NotReturned]
    /\ cartEmptied = {}

RecipeExists(r) == \E row \in recipes : row.id = r

RecipeRow(r) == CHOOSE row \in recipes : row.id = r

(* --------------------------- recipe payloads -------------------------- *)

SeqsUpTo(S, n) == UNION { [1..k -> S] : k \in 0..n }

IngredientItems == [id : IngredientIds, amount : Amounts]

Range(s) == { s[k] : k \in DOMAIN s }

\* len(ids) != len(set(ids))
HasRepeats(s) == Len(s) # Cardinality(Range(s))

\* RecipeCreateUpdateSerializer.validate_name, on create (no instance).
ValidateNameCreate(value) == ~ \E row \in recipes : row.name = value

\* A validate_name that accepts every name.
ValidateNameUpdate_Any(value, instance) == TRUE

\* RecipeCreateUpdateSerializer.validate_name, on update of instance.
ValidateNameUpdate(value, instance) ==
    ~ \E row \in recipes : row.name = value /\ row.id # instance

\* IngredientInRecipeSerializer: id is a key of the Ingredient table,
\* amount an integer with min_value=1 (and no max_value).
ValidateIngredientItem(item) ==
    /\ item.id \in IngredientIds
    /\ item.amount >= 1

\* A validate_ingredients without the check for repeated ids.
ValidateIngredients_NoRepeatCheck(value) == value # <<>>

\* RecipeCreateUpdateSerializer.validate_ingredients
ValidateIngredients(value) ==
    /\ value # <<>>
    /\ ~ HasRepeats([k \in DOMAIN value |-> value[k].id])

\* RecipeCreateUpdateSerializer.validate_tags
ValidateTags(value) ==
    /\ value # <<>>
    /\ ~ HasRepeats(value)

\* The messages of the ingredients field: its items first, then
\* validate_ingredients.
IngredientsErrors(value) ==
    IF \E k \in DOMAIN value : ~ ValidateIngredientItem(value[k])
    THEN {"ingredients: invalid item"}
    ELSE IF value = <<>>
    THEN {"ingredients: at least one"}
    ELSE IF ~ ValidateIngredients(value)
    THEN {"ingredients: repeated"}
    ELSE {}

\* The messages of the tags field: its keys first, then validate_tags.
TagsErrors(value) ==
    IF ~ (Range(value) \subseteq TagIds)
    THEN {"tags: invalid key"}
    ELSE IF value = <<>>
    THEN {"tags: at least one"}
    ELSE IF ~ ValidateTags(value)
    THEN {"tags: repeated"}
    ELSE {}

\* The messages of the fields sent, all collected before the serializer
\* raises.
FieldErrors(data, nameOk) ==
    (IF "ingredients" \in DOMAIN data
     THEN IngredientsErrors(data.ingredients) ELSE {})
    \cup (IF "tags" \in DOMAIN data THEN TagsErrors(data.tags) ELSE {})
    \cup (IF "name" \in DOMAIN data /\ ~ nameOk
          THEN {"name: already exists"} ELSE {})

\* The error body of a create request, empty when the payload is valid;
\* every field is required.
CreateErrors(data) ==
    FieldErrors(data,
                "name" \in DOMAIN data => ValidateNameCreate(data.name))
    \cup { f \o ": required"
             : f \in {"name", "ingredients", "tags"} \ DOMAIN data }

\* An update serializer without validate(): only the fields sent count.
UpdateErrors_FieldsOnly(data, instance) ==
    FieldErrors(data,
                "name" \in DOMAIN data
                   => ValidateNameUpdate(data.name, instance))

\* The error body of an update of instance: the fields sent are validated,
\* then RecipeCreateUpdateSerializer.validate wants ingredients and tags.
UpdateErrors(data, instance) ==
    LET sent == FieldErrors(data,
                    "name" \in DOMAIN data
                       => ValidateNameUpdate(data.name, instance))
    IN  IF sent # {} THEN sent
        ELSE { f \o ": required" : f \in {"ingredients", "tags"} \ DOMAIN data }

\* Recipe.save: a token is generated only when the row has none; the
\* insert then meets the unique index on short_link_token.
TokenTaken(tok) == \E row \in recipes : row.short_link_token = tok

\* Unique indexes of the Recipe table met by saving row: name and
\* short_link_token.
RecipeSaveOk(row) ==
    ~ \E other \in recipes :
         /\ other.id # row.id
         /\ \/ other.name = row.name
            \/ other.short_link_token = row.short_link_token

\* Column and constraint of the RecipeIngredient table met by bulk_create
\* of a recipe's items, the recipe having no row left: the smallint range
\* and unique_recipe_ingredient.
RecipeIngredientInsertOk(items) ==
    /\ \A k \in DOMAIN items :
          items[k].amount >= 0 /\ items[k].amount <= SmallIntMax
    /\ ~ HasRepeats([k \in DOMAIN items |-> items[k].id])

TagRows(r, tags) == { [recipe |-> r, tag |-> t] : t \in Range(tags) }

IngredientRows(r, items) ==
    { [recipe |-> r, ingredient |-> item.id, amount |-> item.amount]
        : item \in Range(items) }

\* A block whose writes stay when an exception leaves it.
Atomic_NoRollback(before, written, failed) == written

\* @transaction.atomic: what a table holds after the block, given what it
\* held before, what the block's statements had written to it when the
\* block ended, and whether an exception ended it.
Atomic(before, written, failed) == IF failed THEN before ELSE written

\* POST /recipes/ by user u with payload data; tok is what
\* generate_short_link_token draws.
CreateRecipe(u, data, tok) ==
    /\ nextId <= MaxRecipes
    /\ UNCHANGED <<favorites, cart, subscriptions, shortLinks, pc,
                   linkReturned, cartEmptied>>
    /\ IF CreateErrors(data) # {}
       THEN /\ last' = Response("create_recipe", u, 0, 400, CreateErrors(data))
            /\ UNCHANGED <<recipes, nextId, recipeTags, recipeIngredients>>
       ELSE LET row == [id |-> nextId, author |-> u, name |-> data.name,
                        short_link_token |-> tok]
                \* Recipe.objects.create: IntegrityError on a taken name
                \* or token
                rowOk == RecipeSaveOk(row)
                \* bulk_create: DataError or IntegrityError
                rowsOk == rowOk /\ RecipeIngredientInsertOk(data.ingredients)
            IN  /\ recipes' =
                       Atomic(recipes,
                              IF rowOk THEN recipes \cup {row} ELSE recipes,
                              ~ rowsOk)
                /\ recipeTags' =
                       Atomic(recipeTags,
                              IF rowOk
                              THEN recipeTags \cup TagRows(nextId, data.tags)
                              ELSE recipeTags,
                              ~ rowsOk)
                /\ recipeIngredients' =
                       Atomic(recipeIngredients,
                              IF rowsOk
                              THEN recipeIngredients \cup
                                      IngredientRows(nextId, data.ingredients)
                              ELSE recipeIngredients,
                              ~ rowsOk)
                \* the primary-key sequence is not rolled back
                /\ nextId' = nextId + 1
                /\ last' = Response("create_recipe", u, nextId,
                                    IF rowsOk THEN 201 ELSE 500, NoBody)

CartOf(rows, u) == { row \in Rows(rows) : row.user = u }

\* The history of emptied carts once the cart table holds newCart.
EmptiedAfter(newCart) ==
    { u \in Users :
        /\ CartOf(newCart, u) = {}
        /\ (u \in cartEmptied \/ CartOf(cart, u) # {}) }

\* A permission that lets any authenticated user write.
IsAuthorOrReadOnly_Anyone(u, row) == TRUE

\* IsAuthorOrReadOnly.has_object_permission for an unsafe method.
IsAuthorOrReadOnly(u, row) == row.author = u

\* ShortLink.recipe is a foreign key that cascades on the recipe's deletion.
ShortLinksWithout(r) == { row \in shortLinks : row.recipe # r }

\* A deletion whose favorite and cart rows do not cascade.
DeleteRecipe_KeepsEdges(u, r) ==
    /\ UNCHANGED <<nextId, subscriptions, pc, favorites, cart, cartEmptied>>
    /\ IF ~ RecipeExists(r)
       THEN /\ last' = Response("delete_recipe", u, r, 404, NoBody)
            /\ UNCHANGED <<recipes, recipeTags, recipeIngredients,
                           shortLinks, linkReturned>>
       ELSE IF ~ IsAuthorOrReadOnly(u, RecipeRow(r))
       THEN /\ last' = Response("delete_recipe", u, r, 403, NoBody)
            /\ UNCHANGED <<recipes, recipeTags, recipeIngredients,
                           shortLinks, linkReturned>>
       ELSE /\ recipes' = { row \in recipes : row.id # r }
            /\ recipeTags' = { row \in recipeTags : row.recipe # r }
            /\ recipeIngredients' =
                   { row \in recipeIngredients : row.recipe # r }
            /\ shortLinks' = ShortLinksWithout(r)
            /\ linkReturned' = [linkReturned EXCEPT ![r] = NotReturned]
            /\ last' = Response("delete_recipe", u, r, 204, NoBody)

\* DELETE /recipes/{r}/ by user u: the row goes, and with it every row
\* whose foreign key to it is on_delete=CASCADE.
DeleteRecipe(u, r) ==
    /\ UNCHANGED <<nextId, subscriptions, pc>>
    /\ IF ~ RecipeExists(r)
       THEN /\ last' = Response("delete_recipe", u, r, 404, NoBody)
            /\ UNCHANGED <<recipes, recipeTags, recipeIngredients, favorites,
                           cart, shortLinks, linkReturned, cartEmptied>>
       ELSE IF ~ IsAuthorOrReadOnly(u, RecipeRow(r))
       THEN /\ last' = Response("delete_recipe", u, r, 403, NoBody)
            /\ UNCHANGED <<recipes, recipeTags, recipeIngredients, favorites,
                           cart, shortLinks, linkReturned, cartEmptied>>
       ELSE /\ recipes' = { row \in recipes : row.id # r }
            /\ recipeTags' = { row \in recipeTags : row.recipe # r }
            /\ recipeIngredients' =
                   { row \in recipeIngredients : row.recipe # r }
            /\ favorites' = WithoutRecipe(favorites, r)
            /\ cart' = WithoutRecipe(cart, r)
            /\ cartEmptied' =
                   EmptiedAfter(WithoutRecipe(cart, r))
            /\ shortLinks' = ShortLinksWithout(r)
            /\ linkReturned' = [linkReturned EXCEPT ![r] = NotReturned]
            /\ last' = Response("delete_recipe", u, r, 204, NoBody)

\* An update that adds the payload's ingredient rows to the old ones.
ReplaceIngredients_KeepsOld(table, r, items) ==
    table \cup IngredientRows(r, items)

\* RecipeCreateUpdateSerializer.update, the ingredients: the recipe's rows
\* are deleted, then the payload's are inserted.
ReplaceIngredients(table, r, items) ==
    { x \in table : x.recipe # r } \cup IngredientRows(r, items)

\* instance.tags.set(tags)
SetTags(table, r, tags) ==
    { x \in table : x.recipe # r } \cup TagRows(r, tags)

\* PUT or PATCH /recipes/{r}/ by user u with payload data: get_object,
\* the object permission, the serializer's validation, then
\* RecipeCreateUpdateSerializer.update.
UpdateRecipe(u, r, data) ==
    /\ UNCHANGED <<nextId, favorites, cart, subscriptions, shortLinks, pc,
                   linkReturned, cartEmptied>>
    /\ IF ~ RecipeExists(r)
       THEN /\ last' = Response("update_recipe", u, r, 404, NoBody)
            /\ UNCHANGED <<recipes, recipeTags, recipeIngredients>>
       ELSE IF ~ IsAuthorOrReadOnly(u, RecipeRow(r))
       THEN /\ last' = Response("update_recipe", u, r, 403, NoBody)
            /\ UNCHANGED <<recipes, recipeTags, recipeIngredients>>
       ELSE IF UpdateErrors(data, r) # {}
       THEN /\ last' = Response("update_recipe", u, r, 400,
                                UpdateErrors(data, r))
            /\ UNCHANGED <<recipes, recipeTags, recipeIngredients>>
       ELSE LET old == RecipeRow(r)
                row == IF "name" \in DOMAIN data
                       THEN [old EXCEPT !.name = data.name]
                       ELSE old
                hasIngredients == "ingredients" \in DOMAIN data
                hasTags == "tags" \in DOMAIN data
                \* RecipeIngredient.objects.filter(recipe=instance).delete()
                deleted == { x \in recipeIngredients : x.recipe # r }
                \* bulk_create: DataError or IntegrityError
                rowsOk == \/ ~ hasIngredients
                          \/ RecipeIngredientInsertOk(data.ingredients)
                \* instance.save(): IntegrityError on a taken name
                saveOk == rowsOk /\ RecipeSaveOk(row)
            IN  /\ recipeIngredients' =
                       Atomic(recipeIngredients,
                              IF ~ hasIngredients THEN recipeIngredients
                              ELSE IF rowsOk
                              THEN ReplaceIngredients(recipeIngredients, r,
                                                      data.ingredients)
                              ELSE deleted,
                              ~ saveOk)
                /\ recipeTags' =
                       Atomic(recipeTags,
                              IF rowsOk /\ hasTags
                              THEN SetTags(recipeTags, r, data.tags)
                              ELSE recipeTags,
                              ~ saveOk)
                /\ recipes' =
                       Atomic(recipes,
                              IF saveOk
                              THEN (recipes \ {old}) \cup {row}
                              ELSE recipes,
                              ~ saveOk)
                /\ last' = Response("update_recipe", u, r,
                                    IF saveOk THEN 200 ELSE 500, NoBody)

(* ----------------------------- short links ---------------------------- *)

\* The ShortLink table without its one-row-per-recipe constraint.
ShortLinkInsertOk_NoRecipeUnique(r, tok) ==
    /\ RecipeExists(r)
    /\ ~ \E row \in shortLinks : row.token = tok

\* Constraints of the ShortLink table met by an insert of (recipe r, token
\* tok): the token is unique, a recipe has at most one row, and the recipe
\* row must exist.
ShortLinkInsertOk(r, tok) ==
    /\ RecipeExists(r)
    /\ ~ \E row \in shortLinks : row.token = tok
    /\ ~ \E row \in shortLinks : row.recipe = r

\* get-link that never looks for an existing row and always mints.
GetLinkLookup_AlwaysCreate(p, r) ==
    /\ pc[p].pc = "idle"
    /\ UNCHANGED <<tables, cartEmptied>>
    /\ IF ~ RecipeExists(r)
       THEN /\ last' = Response("get_link", p, r, 404, NoBody)
            /\ UNCHANGED <<pc, linkReturned>>
       ELSE /\ pc' = [pc EXCEPT ![p] = [pc |-> "create", recipe |-> r]]
            /\ last' = NoResponse
            /\ UNCHANGED linkReturned

\* GetRecipeLinkView.get, first half: get_object_or_404 and
\* ShortLink.objects.filter(recipe=recipe).first().
GetLinkLookup(p, r) ==
    /\ pc[p].pc = "idle"
    /\ UNCHANGED <<tables, cartEmptied>>
    /\ IF ~ RecipeExists(r)
       THEN /\ last' = Response("get_link", p, r, 404, NoBody)
            /\ UNCHANGED <<pc, linkReturned>>
       ELSE IF \E row \in shortLinks : row.recipe = r
       THEN \E row \in shortLinks :
               /\ row.recipe = r
               /\ last' = Response("get_link", p, r, 200, row.token)
               /\ linkReturned' =
                      [linkReturned EXCEPT ![r] = Returned(@, row.token)]
               /\ UNCHANGED pc
       ELSE /\ pc' = [pc EXCEPT ![p] = [pc |-> "create", recipe |-> r]]
            /\ last' = NoResponse
            /\ UNCHANGED linkReturned

\* GetRecipeLinkView.get, second half: generate_token() draws tok, then
\* ShortLink.objects.create(recipe=recipe, token=token).
GetLinkCreate(p, tok) ==
    /\ pc[p].pc = "create"
    /\ pc' = [pc EXCEPT ![p] = Idle]
    /\ UNCHANGED <<recipes, nextId, recipeTags, recipeIngredients, favorites,
                   cart, subscriptions, cartEmptied>>
    /\ LET r == pc[p].recipe IN
       IF ShortLinkInsertOk(r, tok)
       THEN /\ shortLinks' = shortLinks \cup {[recipe |-> r, token |-> tok]}
            /\ last' = Response("get_link", p, r, 200, tok)
            /\ linkReturned' = [linkReturned EXCEPT ![r] = Returned(@, tok)]
       ELSE \* IntegrityError, not caught by the view
            /\ last' = Response("get_link", p, r, 500, NoBody)
            /\ UNCHANGED <<shortLinks, linkReturned>>

\* A redirect view that takes the first short link whatever its token.
ResolveShortLink_AnyRow(tok) ==
    /\ UNCHANGED <<tables, pc, linkReturned, cartEmptied>>
    /\ IF shortLinks # {}
       THEN \E row \in shortLinks :
               last' = Response("resolve", 0, tok, 302, row.recipe)
       ELSE last' = Response("resolve", 0, tok, 404, NoBody)

\* ShortLinkRedirectView.get: get_object_or_404(ShortLink, token=token),
\* then redirect to /recipes/{id}/ (the body holds the id in the path).
ResolveShortLink(tok) ==
    /\ UNCHANGED <<tables, pc, linkReturned, cartEmptied>>
    /\ IF \E row \in shortLinks : row.token = tok
       THEN \E row \in shortLinks :
               /\ row.token = tok
               /\ last' = Response("resolve", 0, tok, 302, row.recipe)
       ELSE last' = Response("resolve", 0, tok, 404, NoBody)

(* --------------------------- specifications --------------------------- *)

\* Neither short links nor the export read a recipe's author: one user
\* writes the recipes.
Authors == {1}

\* Nor do they read a recipe's name: the author picks one not yet in use.
FreshName ==
    CHOOSE x \in RecipeNames :
        (\E y \in RecipeNames : ValidateNameCreate(y))
           => ValidateNameCreate(x)

\* A draw of generate_short_link_token that no recipe holds yet.
FreshToken ==
    CHOOSE x \in Tokens : (\E y \in Tokens : ~ TokenTaken(y)) => ~ TokenTaken(x)

LinkPayloads ==
    { [name |-> n, ingredients |-> <<[id |-> 1, amount |-> 1]>>, tags |-> <<1>>]
        : n \in RecipeNames }

\* Short links: recipes come and go, get-link requests interleave, tokens
\* are drawn at random and resolved.
NextLink ==
    \/ \E u \in Authors, tok \in Tokens :
          \E data \in { d \in LinkPayloads : d.name = FreshName } :
             CreateRecipe(u, data, tok)
    \/ \E u \in Authors, r \in RecipeIds : DeleteRecipe(u, r)
    \/ \E p \in Procs, r \in RecipeIds : GetLinkLookup(p, r)
    \/ \E p \in Procs, tok \in Tokens : GetLinkCreate(p, tok)
    \/ \E tok \in Tokens : ResolveShortLink(tok)

SpecLink == Init /\ [][NextLink]_vars

(* ----------------------- favorites and the cart ---------------------- *)

\* FavoriteRecipeView.post: get_or_create, 400 when the row was there.
FavoriteAdd(u, r) ==
    /\ UNCHANGED <<recipes, nextId, recipeTags, recipeIngredients, cart,
                   subscriptions, shortLinks, pc, linkReturned,
                   cartEmptied>>
    /\ IF ~ RecipeExists(r)
       THEN /\ last' = Response("favorite_add", u, r, 404, NoBody)
            /\ UNCHANGED favorites
       ELSE IF Exists(favorites, [user |-> u, recipe |-> r])
       THEN /\ last' = Response("favorite_add", u, r, 400, NoBody)
            /\ UNCHANGED favorites
       ELSE /\ favorites' = Insert(favorites, [user |-> u, recipe |-> r])
            /\ last' = Response("favorite_add", u, r, 201, NoBody)

\* FavoriteRecipeView.delete
FavoriteDelete(u, r) ==
    /\ UNCHANGED <<recipes, nextId, recipeTags, recipeIngredients, cart,
                   subscriptions, shortLinks, pc, linkReturned,
                   cartEmptied>>
    /\ IF ~ RecipeExists(r)
       THEN /\ last' = Response("favorite_delete", u, r, 404, NoBody)
            /\ UNCHANGED favorites
       ELSE IF ~ Exists(favorites, [user |-> u, recipe |-> r])
       THEN /\ last' = Response("favorite_delete", u, r, 400, NoBody)
            /\ UNCHANGED favorites
       ELSE /\ favorites' =
                   Without(favorites, [user |-> u, recipe |-> r])
            /\ last' = Response("favorite_delete", u, r, 204, NoBody)

\* ShoppingCartView.post
CartAdd(u, r) ==
    /\ UNCHANGED <<recipes, nextId, recipeTags, recipeIngredients, favorites,
                   subscriptions, shortLinks, pc, linkReturned>>
    /\ IF ~ RecipeExists(r)
       THEN /\ last' = Response("cart_add", u, r, 404, NoBody)
            /\ UNCHANGED <<cart, cartEmptied>>
       ELSE IF Exists(cart, [user |-> u, recipe |-> r])
       THEN /\ last' = Response("cart_add", u, r, 400, NoBody)
            /\ UNCHANGED <<cart, cartEmptied>>
       ELSE /\ cart' = Insert(cart, [user |-> u, recipe |-> r])
            /\ cartEmptied' =
                   EmptiedAfter(Insert(cart, [user |-> u, recipe |-> r]))
            /\ last' = Response("cart_add", u, r, 201, NoBody)

\* A delete that filters on the user alone.
CartDelete_AllOfUser(u, r) ==
    /\ UNCHANGED <<recipes, nextId, recipeTags, recipeIngredients, favorites,
                   subscriptions, shortLinks, pc, linkReturned>>
    /\ IF ~ RecipeExists(r)
       THEN /\ last' = Response("cart_delete", u, r, 404, NoBody)
            /\ UNCHANGED <<cart, cartEmptied>>
       ELSE IF ~ Exists(cart, [user |-> u, recipe |-> r])
       THEN /\ last' = Response("cart_delete", u, r, 400, NoBody)
            /\ UNCHANGED <<cart, cartEmptied>>
       ELSE /\ cart' = WithoutUser(cart, u)
            /\ cartEmptied' =
                   EmptiedAfter(WithoutUser(cart, u))
            /\ last' = Response("cart_delete", u, r, 204, NoBody)

\* ShoppingCartView.delete
CartDelete(u, r) ==
    /\ UNCHANGED <<recipes, nextId, recipeTags, recipeIngredients, favorites,
                   subscriptions, shortLinks, pc, linkReturned>>
    /\ IF ~ RecipeExists(r)
       THEN /\ last' = Response("cart_delete", u, r, 404, NoBody)
            /\ UNCHANGED <<cart, cartEmptied>>
       ELSE IF ~ Exists(cart, [user |-> u, recipe |-> r])
       THEN /\ last' = Response("cart_delete", u, r, 400, NoBody)
            /\ UNCHANGED <<cart, cartEmptied>>
       ELSE /\ cart' =
                   Without(cart, [user |-> u, recipe |-> r])
            /\ cartEmptied' =
                   EmptiedAfter(
                       Without(cart, [user |-> u, recipe |-> r]))
            /\ last' = Response("cart_delete", u, r, 204, NoBody)

(* ------------------------- shopping-list export ----------------------- *)

\* Recipe.objects.filter(in_shopping_cart__user=user)
RecipesInCart(u) ==
    { row.id : row \in
        { x \in recipes : Exists(cart, [user |-> u, recipe |-> x.id]) } }

\* RecipeIngredient.objects.filter(recipe__in=recipes_in_cart)
CartIngredientRows(u) ==
    { row \in recipeIngredients : row.recipe \in RecipesInCart(u) }

\* .values('ingredient__name', 'ingredient__measurement_unit')
GroupKey(row) ==
    [name |-> Ingredient(row.ingredient).name,
     unit |-> Ingredient(row.ingredient).measurement_unit]

RECURSIVE SumAmount(_)
SumAmount(rows) ==
    IF rows = {} THEN 0
    ELSE LET row == CHOOSE x \in rows : TRUE
         IN  row.amount + SumAmount(rows \ {row})

\* An aggregate that keeps one amount of the group instead of adding.
TotalAmount_Any(rows, key) ==
    LET row == CHOOSE x \in rows : GroupKey(x) = key IN row.amount

\* .annotate(total_amount=Sum('amount')), for one group
TotalAmount(rows, key) ==
    SumAmount({ row \in rows : GroupKey(row) = key })

\* The grouped query: one record per (name, unit) with the summed amount.
Aggregate(rows) ==
    { [name |-> key.name, unit |-> key.unit,
       total_amount |-> TotalAmount(rows, key)]
        : key \in { GroupKey(row) : row \in rows } }

\* An ordering by the summed amount, not by the name.
OrderKey_ByAmount(group) == group.total_amount

\* .order_by('ingredient__name')
OrderKey(group) == NameOrd(group.name)

\* Every sequence the database may return for the ordered query: all the
\* groups, each once, keys ascending (groups of equal key in any order).
Ordered(groups) ==
    { s \in [1..Cardinality(groups) -> groups] :
        /\ Range(s) = groups
        /\ \A j, k \in DOMAIN s : j < k => OrderKey(s[j]) <= OrderKey(s[k]) }

\* enumerate(ingredients, 0)
LineNumber_FromZero(k) == k - 1

\* enumerate(ingredients, 1)
LineNumber(k) == k

\* The numbered lines '{i}. {name} ({unit}) -- {amount}' of the file.
ReportLines(s) ==
    [k \in DOMAIN s |->
        [n |-> LineNumber(k), name |-> s[k].name, unit |-> s[k].unit,
         amount |-> s[k].total_amount]]

\* A download that also empties the user's cart.
DownloadShoppingCart_ClearsCart(u) ==
    IF RecipesInCart(u) = {}
    THEN /\ last' = Response("download", u, 0, 400, NoBody)
         /\ UNCHANGED <<tables, pc, linkReturned, cartEmptied>>
    ELSE /\ \E s \in Ordered(Aggregate(CartIngredientRows(u))) :
               last' = Response("download", u, 0, 200, ReportLines(s))
         /\ cart' = WithoutUser(cart, u)
         /\ UNCHANGED <<recipes, nextId, recipeTags, recipeIngredients,
                        favorites, subscriptions, shortLinks, pc,
                        linkReturned, cartEmptied>>

\* A download without the empty-cart check.
DownloadShoppingCart_NoEmptyCheck(u) ==
    /\ UNCHANGED <<tables, pc, linkReturned, cartEmptied>>
    /\ \E s \in Ordered(Aggregate(CartIngredientRows(u))) :
          last' = Response("download", u, 0, 200, ReportLines(s))

\* DownloadShoppingCartView.get
DownloadShoppingCart(u) ==
    /\ UNCHANGED <<tables, pc, linkReturned, cartEmptied>>
    /\ IF RecipesInCart(u) = {}
       THEN last' = Response("download", u, 0, 400, NoBody)
       ELSE \E s \in Ordered(Aggregate(CartIngredientRows(u))) :
               last' = Response("download", u, 0, 200, ReportLines(s))

(* ---------------------------- subscriptions --------------------------- *)

\* SubscriptionSerializer.validate without the self-subscription check.
SubscriptionValidate_NoSelfCheck(follower, author) ==
    ~ Exists(subscriptions, [user |-> follower, author |-> author])

\* SubscriptionSerializer.validate without the look for an existing row.
SubscriptionValidate_NoDuplicateCheck(follower, author) == follower # author

\* SubscriptionSerializer.validate
SubscriptionValidate(follower, author) ==
    /\ follower # author
    /\ ~ Exists(subscriptions, [user |-> follower, author |-> author])

\* Constraints of the Subscription table met by an insert:
\* unique_subscription and not_self_following.
SubscriptionInsertOk(follower, author) ==
    /\ ~ Exists(subscriptions, [user |-> follower, author |-> author])
    /\ follower # author

\* SubscribeView.post: is_valid(raise_exception=True), then save().
Subscribe(u, a) ==
    /\ UNCHANGED <<recipes, nextId, recipeTags, recipeIngredients, favorites,
                   cart, shortLinks, pc, linkReturned,
                   cartEmptied>>
    /\ IF ~ SubscriptionValidate(u, a)
       THEN /\ last' = Response("subscribe", u, a, 400, NoBody)
            /\ UNCHANGED subscriptions
       ELSE IF ~ SubscriptionInsertOk(u, a)
       THEN /\ last' = Response("subscribe", u, a, 500, NoBody)
            /\ UNCHANGED subscriptions
       ELSE /\ subscriptions' =
                   Insert(subscriptions, [user |-> u, author |-> a])
            /\ last' = Response("subscribe", u, a, 201, NoBody)

\* SubscribeView.delete
Unsubscribe(u, a) ==
    /\ UNCHANGED <<recipes, nextId, recipeTags, recipeIngredients, favorites,
                   cart, shortLinks, pc, linkReturned,
                   cartEmptied>>
    /\ IF ~ Exists(subscriptions, [user |-> u, author |-> a])
       THEN /\ last' = Response("unsubscribe", u, a, 400, NoBody)
            /\ UNCHANGED subscriptions
       ELSE /\ subscriptions' =
                   Without(subscriptions, [user |-> u, author |-> a])
            /\ last' = Response("unsubscribe", u, a, 204, NoBody)

(* ------------------- edge inserts, step by step ---------------------- *)

\* Each add handler reads, then writes, in two statements that another
\* request can run between.  pc[p] holds what request p has read.

\* The ShoppingCart table without unique_shopping_cart.
CartInsertOk_NoUnique(u, r) == RecipeExists(r)

\* Constraints of the ShoppingCart table met by an insert: the foreign key
\* to the recipe and unique_shopping_cart.
CartInsertOk(u, r) ==
    /\ RecipeExists(r)
    /\ ~ Exists(cart, [user |-> u, recipe |-> r])

\* Constraints of the FavoriteRecipe table met by an insert: the foreign
\* key to the recipe and unique_favorite.
FavoriteInsertOk(u, r) ==
    /\ RecipeExists(r)
    /\ ~ Exists(favorites, [user |-> u, recipe |-> r])

\* ShoppingCartView.post up to the exists() check.
CartAddLookup(p, u, r) ==
    /\ pc[p].pc = "idle"
    /\ UNCHANGED <<tables, linkReturned, cartEmptied>>
    /\ IF ~ RecipeExists(r)
       THEN /\ last' = Response("cart_add", u, r, 404, NoBody)
            /\ UNCHANGED pc
       ELSE IF Exists(cart, [user |-> u, recipe |-> r])
       THEN /\ last' = Response("cart_add", u, r, 400, NoBody)
            /\ UNCHANGED pc
       ELSE /\ pc' = [pc EXCEPT ![p] =
                        [pc |-> "cart_create", user |-> u, recipe |-> r]]
            /\ last' = NoResponse

\* ShoppingCartView.post from ShoppingCart.objects.create on; an
\* IntegrityError is not caught.
CartAddCreate(p) ==
    /\ pc[p].pc = "cart_create"
    /\ pc' = [pc EXCEPT ![p] = Idle]
    /\ UNCHANGED <<recipes, nextId, recipeTags, recipeIngredients, favorites,
                   subscriptions, shortLinks, linkReturned>>
    /\ LET u == pc[p].user
           r == pc[p].recipe
       IN  IF CartInsertOk(u, r)
           THEN /\ cart' = Insert(cart, [user |-> u, recipe |-> r])
                /\ cartEmptied' =
                       EmptiedAfter(Insert(cart, [user |-> u, recipe |-> r]))
                /\ last' = Response("cart_add", u, r, 201, NoBody)
           ELSE /\ last' = Response("cart_add", u, r, 500, NoBody)
                /\ UNCHANGED <<cart, cartEmptied>>

\* FavoriteRecipeView.post up to the get() of get_or_create.
FavoriteAddLookup(p, u, r) ==
    /\ pc[p].pc = "idle"
    /\ UNCHANGED <<tables, linkReturned, cartEmptied>>
    /\ IF ~ RecipeExists(r)
       THEN /\ last' = Response("favorite_add", u, r, 404, NoBody)
            /\ UNCHANGED pc
       ELSE IF Exists(favorites, [user |-> u, recipe |-> r])
       THEN /\ last' = Response("favorite_add", u, r, 400, NoBody)
            /\ UNCHANGED pc
       ELSE /\ pc' = [pc EXCEPT ![p] =
                        [pc |-> "favorite_create", user |-> u, recipe |-> r]]
            /\ last' = NoResponse

\* FavoriteRecipeView.post from the create() of get_or_create on:
\* get_or_create answers an IntegrityError with a second get(), and raises
\* it again when that finds no row.
FavoriteAddCreate(p) ==
    /\ pc[p].pc = "favorite_create"
    /\ pc' = [pc EXCEPT ![p] = Idle]
    /\ UNCHANGED <<recipes, nextId, recipeTags, recipeIngredients, cart,
                   subscriptions, shortLinks, linkReturned, cartEmptied>>
    /\ LET u == pc[p].user
           r == pc[p].recipe
       IN  IF FavoriteInsertOk(u, r)
           THEN /\ favorites' = Insert(favorites, [user |-> u, recipe |-> r])
                /\ last' = Response("favorite_add", u, r, 201, NoBody)
           ELSE IF Exists(favorites, [user |-> u, recipe |-> r])
           THEN /\ last' = Response("favorite_add", u, r, 400, NoBody)
                /\ UNCHANGED favorites
           ELSE /\ last' = Response("favorite_add", u, r, 500, NoBody)
                /\ UNCHANGED favorites

\* SubscribeView.post up to serializer.is_valid(raise_exception=True).
SubscribeValidate(p, u, a) ==
    /\ pc[p].pc = "idle"
    /\ UNCHANGED <<tables, linkReturned, cartEmptied>>
    /\ IF ~ SubscriptionValidate(u, a)
       THEN /\ last' = Response("subscribe", u, a, 400, NoBody)
            /\ UNCHANGED pc
       ELSE /\ pc' = [pc EXCEPT ![p] =
                        [pc |-> "subscription_create", user |-> u,
                         author |-> a]]
            /\ last' = NoResponse

\* SubscribeView.post from serializer.save() on; an IntegrityError is not
\* caught.
SubscribeCreate(p) ==
    /\ pc[p].pc = "subscription_create"
    /\ pc' = [pc EXCEPT ![p] = Idle]
    /\ UNCHANGED <<recipes, nextId, recipeTags, recipeIngredients, favorites,
                   cart, shortLinks, linkReturned, cartEmptied>>
    /\ LET u == pc[p].user
           a == pc[p].author
       IN  IF SubscriptionInsertOk(u, a)
           THEN /\ subscriptions' =
                       Insert(subscriptions, [user |-> u, author |-> a])
                /\ last' = Response("subscribe", u, a, 201, NoBody)
           ELSE /\ last' = Response("subscribe", u, a, 500, NoBody)
                /\ UNCHANGED subscriptions

(* ------------------------------ listings ------------------------------ *)

\* A recipes_limit query value is a string of at most MaxLimitLen
\* characters: digits, the minus sign, a letter.  The empty string stands
\* for an empty or absent parameter (both are falsy in get_recipes).
LimitDigits == {"0", "1", "2", "3"}

LimitChars == LimitDigits \cup {"-", "a"}

LimitValues == SeqsUpTo(LimitChars, MaxLimitLen)

DigitValue(c) ==
    CASE c = "0" -> 0 [] c = "1" -> 1 [] c = "2" -> 2 [] c = "3" -> 3

RECURSIVE Decimal(_)
Decimal(s) ==
    IF s = <<>> THEN 0
    ELSE 10 * Decimal(SubSeq(s, 1, Len(s) - 1)) + DigitValue(s[Len(s)])

\* The digits of a value, its sign taken off.
Unsigned(s) == IF s # <<>> /\ s[1] = "-" THEN Tail(s) ELSE s

\* int(recipes_limit) returns: an optional sign, then one digit or more.
\* Anything else raises ValueError.
IsInt(s) ==
    /\ Unsigned(s) # <<>>
    /\ \A i \in 1..Len(Unsigned(s)) : Unsigned(s)[i] \in LimitDigits

IntOf(s) ==
    IF s[1] = "-" THEN 0 - Decimal(Unsigned(s)) ELSE Decimal(Unsigned(s))

\* Recipe ids from the newest to the oldest: Recipe.Meta.ordering is
\* ('-pub_date',) and pub_date is set on insert, so ids grow with it.
RECURSIVE NewestFirst(_)
NewestFirst(ids) ==
    IF ids = {} THEN <<>>
    ELSE LET newest == CHOOSE x \in ids : \A y \in ids : y <= x
         IN  <<newest>> \o NewestFirst(ids \ {newest})

\* obj.author.recipes.all()
AuthorRecipes(a) ==
    NewestFirst({ row.id : row \in { x \in recipes : x.author = a } })

\* recipes[:n] for n >= 0
Slice(seq, n) == SubSeq(seq, 1, IF n < Len(seq) THEN n ELSE Len(seq))

\* What the query set raises for a slice with a negative bound:
\* AssertionError in Django 3.2, the version the migrations were generated
\* with; ValueError in later versions.
NegativeSliceErrors == {"AssertionError", "ValueError"}

\* SubscriptionSerializer.get_recipes: only ValueError is caught.
GetRecipes(author, recipes_limit, raised) ==
    LET all == AuthorRecipes(author)
    IN  IF recipes_limit = <<>> \/ ~ IsInt(recipes_limit)
        THEN [fault |-> FALSE, recipes |-> all]
        ELSE IF IntOf(recipes_limit) >= 0
        THEN [fault |-> FALSE,
              recipes |-> Slice(all, IntOf(recipes_limit))]
        ELSE IF raised = "ValueError"
        THEN [fault |-> FALSE, recipes |-> all]
        ELSE [fault |-> TRUE, recipes |-> <<>>]

\* SubscriptionsListView.get: one entry per subscription of the requester
\* (at most NUsers of them, one page).
ListSubscriptions(u, recipes_limit) ==
    /\ UNCHANGED <<recipes, nextId, recipeTags, recipeIngredients, favorites,
                   cart, subscriptions, shortLinks, pc, linkReturned,
                   cartEmptied>>
    /\ \E raised \in NegativeSliceErrors :
          LET entries ==
                  { [author |-> s.author,
                     out |-> GetRecipes(s.author, recipes_limit, raised)]
                      : s \in { x \in Rows(subscriptions) : x.user = u } }
          IN  IF \E e \in entries : e.out.fault
              THEN last' = Response("subscriptions", u, recipes_limit,
                                    500, NoBody)
              ELSE last' = Response("subscriptions", u, recipes_limit, 200,
                                    { [author |-> e.author,
                                       recipes |-> e.out.recipes]
                                        : e \in entries })

\* The requester of a listing that is open to everyone: a user, or nobody
\* logged in (AnonymousUser, is_authenticated False).
Anonymous == 0

Requesters == Users \cup {Anonymous}

\* Query values of a BooleanFilter: absent or empty, the spellings of true
\* and false, anything else.
BooleanQueryValues == {"", "1", "true", "0", "false", "yes"}

TrueValues == {"1", "true"}

FalseValues == {"0", "false"}

\* The value a BooleanFilter hands to its method: True, False, or none, and
\* then the method is not called.
BooleanOf(raw) ==
    IF raw \in TrueValues THEN "True"
    ELSE IF raw \in FalseValues THEN "False"
    ELSE "None"

\* queryset.filter(<related_name>__user=user): the join gives one row per
\* matching row of the edge table.
JoinUser(queryset, table, user) ==
    [r \in { x \in DOMAIN queryset :
                CopiesIn([user |-> user, recipe |-> x], table) > 0 }
       |-> queryset[r] * CopiesIn([user |-> user, recipe |-> r], table)]

\* A favorites filter that joins on every user's rows.
FilterIsFavorited_AnyUser(queryset, value, user) ==
    IF value = "True" /\ user # Anonymous
    THEN [r \in { x \in DOMAIN queryset :
                     \E u \in Users :
                        Exists(favorites, [user |-> u, recipe |-> x]) }
            |-> queryset[r]]
    ELSE queryset

\* RecipeFilter.filter_is_favorited
FilterIsFavorited(queryset, value, user) ==
    IF value = "True" /\ user # Anonymous
    THEN JoinUser(queryset, favorites, user)
    ELSE queryset

\* RecipeFilter.filter_is_in_shopping_cart
FilterIsInShoppingCart(queryset, value, user) ==
    IF value = "True" /\ user # Anonymous
    THEN JoinUser(queryset, cart, user)
    ELSE queryset

\* RecipeViewSet.list under RecipeFilter: Recipe.objects.all(), then each
\* filter whose value is not none.  The listing is a bag of recipe ids.
ListRecipes(u, is_favorited, is_in_shopping_cart) ==
    /\ UNCHANGED <<recipes, nextId, recipeTags, recipeIngredients, favorites,
                   cart, subscriptions, shortLinks, pc, linkReturned,
                   cartEmptied>>
    /\ LET all == SetToBag({ row.id : row \in recipes })
           favorited ==
               IF BooleanOf(is_favorited) = "None" THEN all
               ELSE FilterIsFavorited(all, BooleanOf(is_favorited), u)
           listed ==
               IF BooleanOf(is_in_shopping_cart) = "None" THEN favorited
               ELSE FilterIsInShoppingCart(
                        favorited, BooleanOf(is_in_shopping_cart), u)
       IN  last' = Response("recipes", u,
                            [is_favorited |-> is_favorited,
                             is_in_shopping_cart |-> is_in_shopping_cart],
                            200, listed)

(* ----------------------- further specifications ---------------------- *)

\* Payloads for the export: every ingredient list up to MaxIngredients
\* entries (repeated ids included), one name per request.
CartPayloads ==
    { [name |-> n, ingredients |-> ing, tags |-> <<1>>]
        : n \in RecipeNames, ing \in SeqsUpTo(IngredientItems, MaxIngredients) }

\* The export over every recipe content and every cart.
NextCart ==
    \/ \E u \in Authors :
          \E data \in { d \in CartPayloads : d.name = FreshName } :
             CreateRecipe(u, data, FreshToken)
    \/ \E u \in Users, r \in RecipeIds : DeleteRecipe(u, r)
    \/ \E u \in Users, r \in RecipeIds : CartAdd(u, r)
    \/ \E u \in Users, r \in RecipeIds : CartDelete(u, r)
    \/ \E u \in Users : DownloadShoppingCart(u)

SpecCart == Init /\ [][NextCart]_vars

\* The export beside every other writer of the tables it must leave alone:
\* favorites (of one user) and short links (one get-link request at a time).
NextExport ==
    \/ \E u \in Authors :
          \E data \in { d \in LinkPayloads : d.name = FreshName } :
             CreateRecipe(u, data, FreshToken)
    \/ \E u \in Users, r \in RecipeIds : DeleteRecipe(u, r)
    \/ \E u \in Users, r \in RecipeIds : CartAdd(u, r)
    \/ \E u \in Users, r \in RecipeIds : CartDelete(u, r)
    \/ \E u \in Authors, r \in RecipeIds : FavoriteAdd(u, r)
    \/ \E u \in Authors, r \in RecipeIds : FavoriteDelete(u, r)
    \/ \E r \in RecipeIds : GetLinkLookup(1, r)
    \/ \E tok \in Tokens : GetLinkCreate(1, tok)
    \/ \E u \in Users : DownloadShoppingCart(u)

SpecExport == Init /\ [][NextExport]_vars

\* Subscriptions beside the recipes of one author.
NextSub ==
    \/ \E u \in Authors :
          \E data \in { d \in LinkPayloads : d.name = FreshName } :
             CreateRecipe(u, data, FreshToken)
    \/ \E u \in Authors, r \in RecipeIds : DeleteRecipe(u, r)
    \/ \E u \in Users, a \in Users : Subscribe(u, a)
    \/ \E u \in Users, a \in Users : Unsubscribe(u, a)

SpecSub == Init /\ [][NextSub]_vars

\* The three edge relations under interleaved requests: adds run in two
\* steps, deletes and the recipe's deletion in one.
NextEdges ==
    \/ \E u \in Authors :
          \E data \in { d \in LinkPayloads : d.name = FreshName } :
             CreateRecipe(u, data, FreshToken)
    \/ \E u \in Authors, r \in RecipeIds : DeleteRecipe(u, r)
    \/ \E p \in Procs, u \in Authors, r \in RecipeIds : CartAddLookup(p, u, r)
    \/ \E p \in Procs : CartAddCreate(p)
    \/ \E u \in Authors, r \in RecipeIds : CartDelete(u, r)
    \/ \E p \in Procs, u \in Authors, r \in RecipeIds :
          FavoriteAddLookup(p, u, r)
    \/ \E p \in Procs : FavoriteAddCreate(p)
    \/ \E u \in Authors, r \in RecipeIds : FavoriteDelete(u, r)
    \/ \E p \in Procs, u \in Users, a \in Users : SubscribeValidate(p, u, a)
    \/ \E p \in Procs : SubscribeCreate(p)
    \/ \E u \in Users, a \in Users : Unsubscribe(u, a)

SpecEdges == Init /\ [][NextEdges]_vars

\* Ingredient lists of a recipe payload, one of each kind: empty, valid,
\* valid at the largest amount of the settings, an id repeated, an amount
\* below the minimum, one above the settings' maximum, one above the
\* column's.
RecipeIngredientLists ==
    { <<>>,
      <<[id |-> 1, amount |-> INGREDIENT_MIN_AMOUNT]>>,
      <<[id |-> 2, amount |-> 1],
        [id |-> 1, amount |-> INGREDIENT_MAX_AMOUNT]>>,
      <<[id |-> 1, amount |-> 1], [id |-> 1, amount |-> 2]>>,
      <<[id |-> 2, amount |-> INGREDIENT_MIN_AMOUNT - 1]>>,
      <<[id |-> 2, amount |-> INGREDIENT_MAX_AMOUNT + 1]>>,
      <<[id |-> 1, amount |-> 1], [id |-> 2, amount |-> SmallIntMax + 1]>> }

RecipeTagLists == { <<>>, <<1>>, <<2, 1>>, <<1, 1>> }

\* Every ingredient list with a valid tag list, every tag list with a
\* valid ingredient list.
RecipeContents ==
    [ingredients : RecipeIngredientLists, tags : {<<1>>}]
      \cup [ingredients : {<<[id |-> 2, amount |-> 2]>>},
            tags : RecipeTagLists]

RecipePayloads ==
    { [name |-> n, ingredients |-> c.ingredients, tags |-> c.tags]
        : n \in RecipeNames, c \in RecipeContents }

\* An update may leave the name out.
UpdatePayloads == RecipePayloads \cup RecipeContents

\* Updates that leave the ingredients, the tags or both out.
PartialPayloads ==
    { [tags |-> <<2, 1>>],
      [ingredients |-> <<[id |-> 2, amount |-> 2]>>],
      [name |-> "salad"],
      [name |-> "salad", tags |-> <<1>>],
      [name |-> "borsch", ingredients |-> <<[id |-> 1, amount |-> 1]>>] }

\* Recipes written, rewritten and deleted by every user.
NextRecipe ==
    \/ \E u \in Users, data \in RecipePayloads :
          CreateRecipe(u, data, FreshToken)
    \/ \E u \in Users, r \in RecipeIds,
          data \in UpdatePayloads \cup PartialPayloads :
          UpdateRecipe(u, r, data)
    \/ \E u \in Users, r \in RecipeIds : DeleteRecipe(u, r)

SpecRecipe == Init /\ [][NextRecipe]_vars

\* The subscription listing beside the recipes of every author.
NextSubList ==
    \/ \E u \in Users :
          \E data \in { d \in LinkPayloads : d.name = FreshName } :
             CreateRecipe(u, data, FreshToken)
    \/ \E u \in Users, r \in RecipeIds : DeleteRecipe(u, r)
    \/ \E u \in Users, a \in Users : Subscribe(u, a)
    \/ \E u \in Users, a \in Users : Unsubscribe(u, a)
    \/ \E u \in Users, value \in LimitValues : ListSubscriptions(u, value)

SpecSubList == Init /\ [][NextSubList]_vars

\* The recipe listing beside favorites and carts of every user.
NextFilter ==
    \/ \E u \in Authors :
          \E data \in { d \in LinkPayloads : d.name = FreshName } :
             CreateRecipe(u, data, FreshToken)
    \/ \E u \in Authors, r \in RecipeIds : DeleteRecipe(u, r)
    \/ \E u \in Users, r \in RecipeIds : FavoriteAdd(u, r)
    \/ \E u \in Users, r \in RecipeIds : FavoriteDelete(u, r)
    \/ \E u \in Users, r \in RecipeIds : CartAdd(u, r)
    \/ \E u \in Users, r \in RecipeIds : CartDelete(u, r)
    \/ \E u \in Requesters, fav \in BooleanQueryValues,
          crt \in BooleanQueryValues : ListRecipes(u, fav, crt)

SpecFilter == Init /\ [][NextFilter]_vars

(* ------------------------- short-link properties --------------------- *)

LinksOf(r) == { row \in shortLinks : row.recipe = r }

\* C1: in every reachable state a recipe has at most one ShortLink row,
\* also when the lookup and create steps of two get-link requests for the
\* same recipe interleave.
C1_AtMostOneLinkPerRecipe ==
    \A r \in RecipeIds : Cardinality(LinksOf(r)) <= 1

\* Two requests for the same recipe both passed the lookup; one has
\* created the row and the other is still about to create.
C1_Witness ==
    \E p \in Procs :
        /\ pc[p].pc = "create"
        /\ LinksOf(pc[p].recipe) # {}
        /\ linkReturned[pc[p].recipe].token # NoToken

\* The step starts (runs the lookup of) get-link request p for recipe r.
StartsGetLink(p, r) ==
    /\ pc[p].pc = "idle"
    /\ \/ pc'[p] = [pc |-> "create", recipe |-> r]
       \/ /\ last'.op = "get_link"
          /\ last'.user = p
          /\ last'.arg = r

\* C2: a get-link request that starts after an earlier one for the same
\* recipe has returned a token (the recipe not deleted in between) answers
\* 200 with that same token and creates no row.
C2_SecondGetLinkSameToken ==
    [][ \A p \in Procs, r \in RecipeIds :
          (linkReturned[r].token # NoToken /\ StartsGetLink(p, r))
            => /\ pc'[p].pc = "idle"
               /\ last'.status = 200
               /\ last'.body = linkReturned[r].token
               /\ shortLinks' = shortLinks ]_vars

\* A token has been returned for a recipe a second time.
C2_Witness ==
    /\ last.op = "get_link"
    /\ last.status = 200
    /\ linkReturned[last.arg].again
    /\ linkReturned[last.arg].token = last.body

\* C3: a freshly generated token that collides with a stored one is
\* regenerated and retried, so neither a get-link request for an existing
\* recipe without a link nor a valid recipe save ends in a fault.
C3_CollisionRetried ==
    [][ /\ \A p \in Procs :
             ( /\ pc[p].pc = "create"
               /\ pc'[p].pc = "idle"
               /\ RecipeExists(pc[p].recipe)
               /\ LinksOf(pc[p].recipe) = {} )
               => last'.status = 200
        /\ (nextId' # nextId) => last'.status = 201 ]_vars

\* C4: resolving a token no short link holds answers 404; resolving a held
\* token answers a redirect to the recipe of its row, in particular to the
\* recipe get-link returned it for; either way no table changes.
C4_ResolveKnownOrNotFound ==
    [][ last'.op = "resolve" =>
          /\ UNCHANGED <<tables, pc, linkReturned, cartEmptied>>
          /\ IF \E row \in shortLinks : row.token = last'.arg
             THEN /\ last'.status = 302
                  /\ [recipe |-> last'.body, token |-> last'.arg] \in shortLinks
             ELSE /\ last'.status = 404
                  /\ last'.body = NoBody
          /\ \A r \in RecipeIds :
                linkReturned[r].token = last'.arg
                  => (last'.status = 302 /\ last'.body = r) ]_vars

\* A token issued for the second recipe was resolved to it while another
\* recipe holds another token.
C4_Witness ==
    /\ last.op = "resolve"
    /\ last.status = 302
    /\ linkReturned[last.body].token = last.arg
    /\ \E row \in shortLinks : row.recipe # last.body

(* ----------------------- shopping-list properties --------------------- *)

\* The latest step answered user u's download request with a report.
Reported(u) ==
    /\ last.op = "download"
    /\ last.user = u
    /\ last.status = 200

InCart(u, r) == Exists(cart, [user |-> u, recipe |-> r])

\* The amount recipe r lists for ingredient i, 0 when it lists none.
AmountIn(r, i) ==
    IF \E row \in recipeIngredients : row.recipe = r /\ row.ingredient = i
    THEN (CHOOSE row \in recipeIngredients :
              row.recipe = r /\ row.ingredient = i).amount
    ELSE 0

\* What user u needs of ingredient i over the recipes 1..n of the cart.
RECURSIVE Needed(_, _, _)
Needed(u, i, n) ==
    IF n = 0 THEN 0
    ELSE Needed(u, i, n - 1) + (IF InCart(u, n) THEN AmountIn(n, i) ELSE 0)

\* The positions of the report's lines for ingredient i.
LinesFor(lines, i) ==
    { k \in DOMAIN lines :
        /\ lines[k].name = Ingredient(i).name
        /\ lines[k].unit = Ingredient(i).measurement_unit }

\* C5: a download by a user whose cart holds no recipe answers 400 and no
\* report (and a user with a recipe in the cart gets a report), in every
\* reachable state, so also after the cart was emptied by removals or by
\* the deletion of its recipes.
C5_EmptyCartRejected ==
    last.op = "download" =>
        IF CartOf(cart, last.user) = {}
        THEN last.status = 400 /\ last.body = NoBody
        ELSE last.status = 200

\* The cart held a recipe, lost its last row by the recipe's deletion, and
\* the download was then refused.
C5_Witness ==
    /\ last.op = "download"
    /\ last.status = 400
    /\ last.user \in cartEmptied
    /\ recipes = {}

\* C6: a report has exactly one line per (name, unit) of an ingredient
\* listed by a recipe of the cart, no other line, and the line's amount is
\* the sum of that ingredient's amounts over the recipes in the cart.
C6_OneLinePerIngredientWithSum ==
    \A u \in Users : Reported(u) =>
        /\ \A i \in IngredientIds :
              IF Needed(u, i, MaxRecipes) = 0
              THEN LinesFor(last.body, i) = {}
              ELSE /\ Cardinality(LinesFor(last.body, i)) = 1
                   /\ \A k \in LinesFor(last.body, i) :
                         last.body[k].amount = Needed(u, i, MaxRecipes)
        /\ \A k \in DOMAIN last.body :
              \E i \in IngredientIds : k \in LinesFor(last.body, i)

\* Two recipes of the cart list the same ingredient, the report has a line
\* with the sum of both amounts and a line for another ingredient, and the
\* other user's cart holds a recipe too.
C6_Witness ==
    \E u \in Users, i \in IngredientIds :
        /\ Reported(u)
        /\ \A r \in RecipeIds : InCart(u, r) <=> r \in {1, 2}
        /\ AmountIn(1, i) > 0
        /\ AmountIn(2, i) > AmountIn(1, i)
        /\ \E k \in DOMAIN last.body :
              /\ last.body[k].name = Ingredient(i).name
              /\ last.body[k].amount = AmountIn(1, i) + AmountIn(2, i)
        /\ Len(last.body) > 1
        /\ \E row \in Rows(cart) : row.user # u

\* C7: the lines of a report are in ascending order of ingredient name and
\* are numbered 1, 2, ..., k, k being the number of aggregated groups.
C7_SortedAndNumbered ==
    \A u \in Users : Reported(u) =>
        /\ \A j, k \in DOMAIN last.body :
              j < k => NameOrd(last.body[j].name) <= NameOrd(last.body[k].name)
        /\ \A k \in DOMAIN last.body : last.body[k].n = k
        /\ Len(last.body) =
              Cardinality({ i \in IngredientIds : Needed(u, i, MaxRecipes) > 0 })

\* A report of two lines whose name order is the reverse of the order of
\* the ingredients' primary keys and of the totals.
C7_Witness ==
    /\ last.op = "download"
    /\ last.status = 200
    /\ Len(last.body) = 2
    /\ last.body[1].amount > last.body[2].amount

\* C9: a download changes no table (cart, favorites, recipes, ingredient
\* rows, short links), whether it answers a report or 400, and a download
\* right after a download by the same user answers the same.
C9_DownloadReadOnly ==
    [][ last'.op = "download" =>
          /\ UNCHANGED <<tables, pc, linkReturned, cartEmptied>>
          /\ (last.op = "download" /\ last.user = last'.user)
                => (last'.status = last.status /\ last'.body = last.body) ]_vars

\* A report was answered while favorites, cart, recipes and short links all
\* held rows.
C9_Witness ==
    /\ last.op = "download"
    /\ last.status = 200
    /\ Rows(favorites) # {}
    /\ shortLinks # {}
    /\ \E row \in Rows(cart) : row.user # last.user

(* ------------------------ subscription properties --------------------- *)

\* C10: a subscribe request whose follower is the author answers 400 and
\* adds no row, whatever the subscription table holds.
C10_SelfSubscribeRejected ==
    [][ (last'.op = "subscribe" /\ last'.user = last'.arg) =>
          /\ last'.status = 400
          /\ subscriptions' = subscriptions
          /\ ~ Exists(subscriptions',
                      [user |-> last'.user, author |-> last'.arg])
      ]_vars

\* A self-subscription was refused while the user follows somebody and is
\* followed.
C10_Witness ==
    /\ last.op = "subscribe"
    /\ last.user = last.arg
    /\ last.status = 400
    /\ \E row \in Rows(subscriptions) : row.user = last.user
    /\ \E row \in Rows(subscriptions) : row.author = last.user

(* --------------------------- edge properties -------------------------- *)

AddOps == {"favorite_add", "cart_add", "subscribe"}

DeleteOps == {"favorite_delete", "cart_delete", "unsubscribe"}

\* The edge a response to an add or delete request is about.
EdgeOf(resp) ==
    IF resp.op \in {"subscribe", "unsubscribe"}
    THEN [user |-> resp.user, author |-> resp.arg]
    ELSE [user |-> resp.user, recipe |-> resp.arg]

\* The one of the three given tables a request of kind op works on.
TableOf(op, fav, crt, sub) ==
    CASE op \in {"favorite_add", "favorite_delete"} -> fav
      [] op \in {"cart_add", "cart_delete"} -> crt
      [] op \in {"subscribe", "unsubscribe"} -> sub

\* The edge request p has read as absent and is about to insert.
PendingEdge(pos) ==
    IF pos.pc = "subscription_create"
    THEN [user |-> pos.user, author |-> pos.author]
    ELSE [user |-> pos.user, recipe |-> pos.recipe]

PendingTable(pos) ==
    CASE pos.pc = "favorite_create" -> favorites
      [] pos.pc = "cart_create" -> cart
      [] pos.pc = "subscription_create" -> subscriptions

CreatePositions == {"favorite_create", "cart_create", "subscription_create"}

\* C11: in every reachable state no (user, recipe) pair has two favorite
\* rows, none has two cart rows, no (follower, author) pair has two
\* subscription rows, and no subscription has the follower as its author.
C11_EdgeRelationsAreSets ==
    /\ \A row \in Rows(favorites) : CopiesIn(row, favorites) = 1
    /\ \A row \in Rows(cart) : CopiesIn(row, cart) = 1
    /\ \A row \in Rows(subscriptions) : CopiesIn(row, subscriptions) = 1
    /\ \A row \in Rows(subscriptions) : row.user # row.author

\* Two requests read the same cart edge as absent; the second insert met
\* the stored row.  The other two relations hold rows too.
C11_Witness ==
    /\ last.op = "cart_add"
    /\ last.status = 500
    /\ Exists(cart, EdgeOf(last))
    /\ Rows(favorites) # {}
    /\ Rows(subscriptions) # {}

\* C12: an add request that finds its edge stored when it reads answers
\* 400 and changes no table; no request goes on to insert an edge it has
\* read as stored, and no add request answers 201 for, or writes over, an
\* edge that is stored.
C12_DuplicateAddRejected ==
    [][ /\ (last'.op \in AddOps /\ pc' = pc
              /\ Exists(TableOf(last'.op, favorites, cart, subscriptions),
                        EdgeOf(last')))
            => (last'.status = 400 /\ UNCHANGED tables)
        /\ \A p \in Procs :
              (pc[p].pc = "idle" /\ pc'[p].pc \in CreatePositions)
                => ~ Exists(PendingTable(pc'[p]), PendingEdge(pc'[p]))
        /\ (last'.op \in AddOps
              /\ Exists(TableOf(last'.op, favorites, cart, subscriptions),
                        EdgeOf(last')))
            => (last'.status # 201 /\ UNCHANGED tables) ]_vars

\* A subscription that is stored was asked for again and refused, no
\* request being in flight, while favorites and cart hold rows.
C12_Witness ==
    /\ last.op = "subscribe"
    /\ last.status = 400
    /\ Exists(subscriptions, EdgeOf(last))
    /\ \A p \in Procs : pc[p].pc = "idle"
    /\ Rows(favorites) # {}
    /\ Rows(cart) # {}

\* C13: a delete request for an edge that is not stored answers 400 (404
\* when the recipe itself is unknown) and changes no table; one for a
\* stored edge answers 204, removes that edge from its relation and
\* changes nothing else.
C13_DeleteEdge ==
    [][ last'.op \in DeleteOps =>
          LET e == EdgeOf(last')
              stored == Exists(TableOf(last'.op, favorites, cart,
                                       subscriptions), e)
          IN  /\ UNCHANGED <<recipes, nextId, recipeTags, recipeIngredients,
                             shortLinks>>
              /\ IF last'.op # "unsubscribe" /\ ~ RecipeExists(last'.arg)
                 THEN last'.status = 404 /\ UNCHANGED tables
                 ELSE IF ~ stored
                 THEN last'.status = 400 /\ UNCHANGED tables
                 ELSE /\ last'.status = 204
                      /\ favorites' =
                             IF last'.op = "favorite_delete"
                             THEN Without(favorites, e)
                             ELSE favorites
                      /\ cart' =
                             IF last'.op = "cart_delete"
                             THEN Without(cart, e)
                             ELSE cart
                      /\ subscriptions' =
                             IF last'.op = "unsubscribe"
                             THEN Without(subscriptions, e)
                             ELSE subscriptions ]_vars

\* A cart edge was deleted while the same user keeps another cart edge and
\* the favorite edge for the same recipe.
C13_Witness ==
    /\ last.op = "cart_delete"
    /\ last.status = 204
    /\ \E row \in Rows(cart) : row.user = last.user
    /\ Exists(favorites, EdgeOf(last))
    /\ Rows(subscriptions) # {}

\* C14: an add request that meets its edge stored, at its read or at its
\* insert, answers 400 (the request that stored it answers 201): no
\* interleaving of two requests for the same edge ends in a fault.
C14_ConcurrentAddResolved ==
    (last.op \in AddOps
       /\ Exists(TableOf(last.op, favorites, cart, subscriptions),
                 EdgeOf(last)))
      => last.status \in {201, 400}

(* -------------------------- recipe properties ------------------------- *)

TagsOf(r) == { row \in recipeTags : row.recipe = r }

IngredientsOf(r) == { row \in recipeIngredients : row.recipe = r }

RecipeTables == <<recipes, recipeTags, recipeIngredients>>

RepeatsIngredient(data) ==
    HasRepeats([k \in DOMAIN data.ingredients |-> data.ingredients[k].id])

\* The create request answered by the step refused it with message msg
\* and changed no table.
Refused(msg) ==
    /\ last'.status = 400
    /\ msg \in last'.body
    /\ UNCHANGED tables

RepeatingPayloads == { d \in RecipePayloads : RepeatsIngredient(d) }

\* C15: a create request whose payload lists an ingredient id twice
\* answers 400 naming the repetition, and no table row (recipe, tag link,
\* ingredient row) nor the key sequence differs from before the request:
\* no step with another outcome is such a request.
C15_RepeatedIngredientRejected ==
    [][ (last'.op = "create_recipe" /\ ~ Refused("ingredients: repeated"))
          => \A data \in RepeatingPayloads :
                ~ CreateRecipe(last'.user, data, FreshToken) ]_vars

\* A create with a repeated ingredient id was refused while a recipe is
\* stored.
C15_Witness ==
    /\ last.op = "create_recipe"
    /\ last.status = 400
    /\ "ingredients: repeated" \in last.body
    /\ recipes # {}

\* Recipe r is stored with exactly the content of payload data.
Written(r, data) ==
    /\ RecipeExists(r)
    /\ "name" \in DOMAIN data => RecipeRow(r).name = data.name
    /\ TagsOf(r) = TagRows(r, data.tags)
    /\ IngredientsOf(r) = IngredientRows(r, data.ingredients)

\* Every recipe row has tag links and ingredient rows, and every tag link
\* and ingredient row belongs to a recipe row.
Whole ==
    /\ \A row \in recipes : TagsOf(row.id) # {} /\ IngredientsOf(row.id) # {}
    /\ \A row \in recipeTags \cup recipeIngredients : RecipeExists(row.recipe)

\* The step left every recipe but r as it was.
OthersKept(r) ==
    /\ { row \in recipes' : row.id # r } = { row \in recipes : row.id # r }
    /\ \A o \in RecipeIds \ {r} :
          /\ TagsOf(o)' = TagsOf(o)
          /\ IngredientsOf(o)' = IngredientsOf(o)

\* C16: after every step each stored recipe is whole; a create or update
\* request leaves either the recipe tables as they were or the recipe with
\* the name, tags and ingredient rows of its payload, every other recipe
\* untouched.
C16_AllOrNothing ==
    [][ /\ Whole'
        /\ last'.op = "create_recipe"
             => \/ UNCHANGED RecipeTables
                \/ \E data \in RecipePayloads, r \in RecipeIds :
                      /\ r = nextId
                      /\ Written(r, data)'
                      /\ OthersKept(r)
                      /\ CreateRecipe(last'.user, data, FreshToken)
        /\ last'.op = "update_recipe"
             => \/ UNCHANGED RecipeTables
                \/ \E data \in UpdatePayloads, r \in RecipeIds :
                      /\ r = last'.arg
                      /\ Written(r, data)'
                      /\ OthersKept(r)
                      /\ UpdateRecipe(last'.user, r, data) ]_vars

\* An update failed at bulk_create, after the old ingredient rows were
\* deleted; the recipe has its rows.
C16_Witness ==
    /\ last.op = "update_recipe"
    /\ last.status = 500
    /\ IngredientsOf(last.arg) # {}
    /\ Cardinality(recipes) = 2

\* C17: the author of a recipe is the user whose request created it and
\* never changes; a step that changes or removes a recipe's row, tags or
\* ingredient rows is a request of its author; an update or delete request
\* by another user answers 403 and changes no table.
C17_AuthorOnly ==
    [][ /\ \A new \in recipes' :
              IF RecipeExists(new.id)
              THEN new.author = RecipeRow(new.id).author
              ELSE /\ last'.op = "create_recipe"
                   /\ new.author = last'.user
        /\ \A row \in recipes :
              ( \/ row \notin recipes'
                \/ TagsOf(row.id)' # TagsOf(row.id)
                \/ IngredientsOf(row.id)' # IngredientsOf(row.id) )
                => /\ last'.op \in {"update_recipe", "delete_recipe"}
                   /\ last'.arg = row.id
                   /\ last'.user = row.author
        /\ ( /\ last'.op \in {"update_recipe", "delete_recipe"}
             /\ RecipeExists(last'.arg)
             /\ RecipeRow(last'.arg).author # last'.user )
              => (last'.status = 403 /\ UNCHANGED tables) ]_vars

\* An update by the author of another recipe was refused.
C17_Witness ==
    /\ last.op = "update_recipe"
    /\ last.status = 403
    /\ RecipeExists(last.arg)
    /\ \E row \in recipes : row.author = last.user

\* C18: after every step each ingredient row, favorite row and cart row
\* refers to a stored recipe; a deletion leaves no such row of the recipe,
\* and no row of it in the rows any user's shopping list is computed from.
C18_DeleteCascades ==
    [][ /\ \A row \in recipeIngredients' \cup Rows(favorites')
                      \cup Rows(cart') :
              \E rec \in recipes' : rec.id = row.recipe
        /\ (last'.op = "delete_recipe" /\ last'.status = 204)
              => /\ \A row \in recipeIngredients' \cup Rows(favorites')
                               \cup Rows(cart') :
                       row.recipe # last'.arg
                 /\ \A u \in Users :
                       \A row \in CartIngredientRows(u)' :
                          row.recipe # last'.arg ]_vars

\* A recipe was deleted while a request is about to insert a cart row for
\* it, and a user's cart was emptied.
C18_Witness ==
    /\ last.op = "delete_recipe"
    /\ last.status = 204
    /\ \E p \in Procs :
          pc[p].pc = "cart_create" /\ pc[p].recipe = last.arg
    /\ cartEmptied # {}
    /\ recipes # {}

\* C19: in every reachable state a (recipe, ingredient) pair has at most
\* one ingredient row and every row's amount lies between
\* INGREDIENT_MIN_AMOUNT and INGREDIENT_MAX_AMOUNT.
C19_IngredientRowsBounded ==
    /\ \A a, b \in recipeIngredients :
          (a.recipe = b.recipe /\ a.ingredient = b.ingredient) => a = b
    /\ \A row \in recipeIngredients :
          /\ row.amount >= INGREDIENT_MIN_AMOUNT
          /\ row.amount <= INGREDIENT_MAX_AMOUNT

NameUsedBesides(name, r) ==
    \E row \in recipes : row.name = name /\ row.id # r

\* C20: after every step no two recipes have the same name; a create with
\* a name some recipe has, and an author's update to a name another recipe
\* has, answer 400 naming the name and change no table; an author's update
\* that sends the recipe's own name is not refused for the name.  No step
\* with another outcome is such a request.
C20_NamesUnique ==
    [][ /\ \A a, b \in recipes' : a.name = b.name => a.id = b.id
        /\ (last'.op = "create_recipe"
              /\ ~ Refused("name: already exists"))
             => \A data \in RecipePayloads :
                   NameUsedBesides(data.name, 0)
                     => ~ CreateRecipe(last'.user, data, FreshToken)
        /\ (last'.op = "update_recipe"
              /\ RecipeExists(last'.arg)
              /\ RecipeRow(last'.arg).author = last'.user)
             => \A data \in RecipePayloads :
                   IF NameUsedBesides(data.name, last'.arg)
                   THEN \/ Refused("name: already exists")
                        \/ ~ UpdateRecipe(last'.user, last'.arg, data)
                   ELSE \/ last'.status # 400
                        \/ "name: already exists" \notin last'.body
                        \/ ~ UpdateRecipe(last'.user, last'.arg, data) ]_vars

\* The author's update to the name of another recipe was refused.
C20_Witness ==
    /\ last.op = "update_recipe"
    /\ last.status = 400
    /\ "name: already exists" \in last.body
    /\ Cardinality(recipes) = 2

\* C23: an update answered 200 leaves the recipe with exactly the
\* ingredient rows and tags of its payload, none of the old ones besides,
\* the recipe's id and author as they were, and every other recipe's row,
\* tags and ingredient rows untouched.
C23_UpdateReplaces ==
    [][ (last'.op = "update_recipe" /\ last'.status = 200)
          => \E r \in RecipeIds :
                /\ r = last'.arg
                /\ \A data \in UpdatePayloads :
                      UpdateRecipe(last'.user, r, data)
                        => /\ IngredientsOf(r)' =
                                 IngredientRows(r, data.ingredients)
                           /\ TagsOf(r)' = TagRows(r, data.tags)
                /\ \E new \in recipes' :
                      /\ new.id = r
                      /\ new.author = RecipeRow(r).author
                      /\ \A o \in recipes' : o.id = r => o = new
                /\ OthersKept(r) ]_vars

\* An update went through on a recipe that now has both tags and one
\* ingredient row, beside another recipe.
C23_Witness ==
    /\ last.op = "update_recipe"
    /\ last.status = 200
    /\ Cardinality(TagsOf(last.arg)) = 2
    /\ IngredientsOf(last.arg) =
          {[recipe |-> last.arg, ingredient |-> 2, amount |-> 2]}
    /\ Cardinality(recipes) = 2

\* Payloads without ingredients or tags, or with an empty list of them.
LackingPayloads ==
    PartialPayloads
      \cup { d \in UpdatePayloads : d.ingredients = <<>> \/ d.tags = <<>> }

\* The request answered by the step was refused and changed no table.
Rejected == last'.status = 400 /\ UNCHANGED tables

\* C24: the author's update of a stored recipe with a payload that leaves
\* out the ingredients or the tags, or has an empty list of either, answers
\* 400 and changes no table, and so does a create with an empty list: no
\* step with another outcome is such a request.  After every step each
\* stored recipe has an ingredient row and a tag.
C24_IngredientsAndTagsRequired ==
    [][ /\ \A row \in recipes' :
              TagsOf(row.id)' # {} /\ IngredientsOf(row.id)' # {}
        /\ ( /\ last'.op = "update_recipe"
             /\ ~ Rejected
             /\ RecipeExists(last'.arg)
             /\ RecipeRow(last'.arg).author = last'.user )
             => \A data \in LackingPayloads :
                   ~ UpdateRecipe(last'.user, last'.arg, data)
        /\ (last'.op = "create_recipe" /\ ~ Rejected)
             => \A data \in LackingPayloads \cap RecipePayloads :
                   ~ CreateRecipe(last'.user, data, FreshToken) ]_vars

\* The author's update without ingredients was refused by validate().
C24_Witness ==
    /\ last.op = "update_recipe"
    /\ last.status = 400
    /\ last.body = {"ingredients: required"}
    /\ RecipeExists(last.arg)
    /\ RecipeRow(last.arg).author = last.user
    /\ IngredientsOf(last.arg) # {}

(* -------------------------- listing properties ------------------------ *)

\* The first n entries of a sequence, all of it when it is shorter.
FirstN(seq, n) ==
    [i \in 1..(IF n < 0 THEN 0 ELSE IF n < Len(seq) THEN n ELSE Len(seq))
       |-> seq[i]]

\* The requester's subscriptions.
Followed(u) == { s.author : s \in { x \in Rows(subscriptions) : x.user = u } }

\* C21: a subscription listing with a recipes_limit value never fails; for
\* an integer value N each author's recipes shown are the first N of the
\* author's sequence, for any other value the whole sequence.
C21_RecipesLimit ==
    last.op = "subscriptions" =>
        /\ last.status = 200
        /\ { e.author : e \in last.body } = Followed(last.user)
        /\ \A e \in last.body :
              e.recipes = IF IsInt(last.arg)
                          THEN FirstN(AuthorRecipes(e.author), IntOf(last.arg))
                          ELSE AuthorRecipes(e.author)

\* The recipes a requester asks for: all of them, narrowed to the
\* requester's own favorites or cart by a true value when logged in.
Asked(user, query) ==
    { row.id : row \in
        { x \in recipes :
            /\ (user \in Users /\ query.is_favorited \in TrueValues)
                  => Exists(favorites, [user |-> user, recipe |-> x.id])
            /\ (user \in Users /\ query.is_in_shopping_cart \in TrueValues)
                  => Exists(cart, [user |-> user, recipe |-> x.id]) } }

\* C22: the is_favorited and is_in_shopping_cart filters never fail; for
\* nobody logged in or a value that is not true the listing is unfiltered,
\* for a user with a true value it holds exactly the recipes this user
\* has in favorites, respectively in the cart, each once.
C22_ListingFilters ==
    last.op = "recipes" =>
        /\ last.status = 200
        /\ BagToSet(last.body) = Asked(last.user, last.arg)
        /\ \A r \in BagToSet(last.body) : CopiesIn(r, last.body) = 1

\* A user's favorites listing leaves out a recipe only the other user
\* has in favorites.
C22_Witness ==
    /\ last.op = "recipes"
    /\ last.user = 1
    /\ last.arg.is_favorited = "1"
    /\ last.arg.is_in_shopping_cart = "0"
    /\ BagToSet(last.body) = {1}
    /\ Exists(favorites, [user |-> 2, recipe |-> 2])
    /\ Exists(cart, [user |-> 2, recipe |-> 2])
    /\ ~ Exists(cart, [user |-> 1, recipe |-> 1])

====
